---------------------------- MODULE Spec2Model ----------------------------
(***************************************************************************)
(* A model of the frag JIT compiler: lexer (src/src/lexer.rs), parser      *)
(* (src/src/parser.rs), lowering to a single-block IR and its execution    *)
(* (src/src/codegen.rs) and the command-line driver (src/src/main.rs).     *)
(*                                                                         *)
(* Source text is a sequence of one-character strings.  i64 is modelled    *)
(* as a two's-complement word of I64Bits bits.                             *)
(***************************************************************************)
EXTENDS Integers, Sequences, FiniteSets

(***************************************************************************)
(* Bounds of the model.                                                    *)
(***************************************************************************)
\* width in bits of the model's machine word (i64 in the source)
I64Bits == 4
\* longest source text enumerated character by character
MaxSrcLen == 3
\* calls of Lexer::next a client makes after the first Eof
MaxEofCalls == 2

RECURSIVE Pow2(_)
Pow2(n) == IF n = 0 THEN 1 ELSE 2 * Pow2(n - 1)

I64_MAX == Pow2(I64Bits - 1) - 1
I64_MIN == 0 - Pow2(I64Bits - 1)
I64 == I64_MIN .. I64_MAX

\* two's-complement wrap of an integer into the word
Wrap(n) == ((n - I64_MIN) % Pow2(I64Bits)) + I64_MIN

(***************************************************************************)
(* Characters (char::is_whitespace, is_ascii_digit, is_alphabetic).        *)
(***************************************************************************)
is_whitespace(c) == c \in {" ", "\n", "\t"}

DigitValue ==
  [c \in {"0", "1", "2", "3", "4", "5", "6", "7", "8", "9"} |->
     CASE c = "0" -> 0 [] c = "1" -> 1 [] c = "2" -> 2 [] c = "3" -> 3
       [] c = "4" -> 4 [] c = "5" -> 5 [] c = "6" -> 6 [] c = "7" -> 7
       [] c = "8" -> 8 [] c = "9" -> 9]

is_ascii_digit(c) == c \in DOMAIN DigitValue

is_alphabetic(c) ==
  c \in {"a", "e", "f", "i", "l", "n", "p", "r", "s", "t", "u", "x", "y"}

is_alphanumeric(c) == is_alphabetic(c) \/ is_ascii_digit(c)

(***************************************************************************)
(* Tokens (enum Token).  A token is a record with its kind in k; Number,   *)
(* Bool and Identifier carry their payload.  PANIC is not a token: it      *)
(* marks the call of Lexer::next that unwinds (expect("Invalid number")).  *)
(***************************************************************************)
Tok(kind) == [k |-> kind]
NumberTok(n) == [k |-> "Number", n |-> n]
BoolTok(b) == [k |-> "Bool", b |-> b]
IdentifierTok(s) == [k |-> "Identifier", s |-> s]
Eof == Tok("Eof")
PANIC == Tok("PANIC")

Min(a, b) == IF a < b THEN a ELSE b

\* s[p], or "" past the end (Peekable::peek returning None)
CharAt(s, p) == IF p >= 1 /\ p <= Len(s) THEN s[p] ELSE ""

(***************************************************************************)
(* Lexer::skip_whitespace_and_comments.  A lexer position p is the index   *)
(* of the next character of the source; Len(s) + 1 is the end.             *)
(***************************************************************************)
\* while let Some(ch) = self.source.next() { if ch == '\n' { break; } }
RECURSIVE skip_line(_, _)
skip_line(s, p) ==
  IF p > Len(s) THEN Len(s) + 1
  ELSE IF s[p] = "\n" THEN p + 1
  ELSE skip_line(s, p + 1)

RECURSIVE skip_whitespace_and_comments(_, _)
skip_whitespace_and_comments(s, p) ==
  IF p > Len(s) THEN Len(s) + 1
  ELSE IF is_whitespace(s[p]) THEN skip_whitespace_and_comments(s, p + 1)
  ELSE IF s[p] = "/"
    THEN IF CharAt(s, p + 1) = "/"
           THEN skip_whitespace_and_comments(s, skip_line(s, p + 2))
           ELSE p
  ELSE IF s[p] = "#"
    THEN skip_whitespace_and_comments(s, skip_line(s, p + 1))
  ELSE p

(***************************************************************************)
(* The digit and identifier runs of Lexer::next.                           *)
(***************************************************************************)
\* end of the run of ASCII digits that starts at p
RECURSIVE digit_run(_, _)
digit_run(s, p) ==
  IF is_ascii_digit(CharAt(s, p)) THEN digit_run(s, p + 1) ELSE p

\* end of the run of alphanumerics and '_' that starts at p
RECURSIVE ident_run(_, _)
ident_run(s, p) ==
  IF is_alphanumeric(CharAt(s, p)) \/ CharAt(s, p) = "_"
    THEN ident_run(s, p + 1) ELSE p

\* str::parse::<i64> of the digits s[p..q-1] on top of the value acc:
\* -1 when the value leaves i64 (Err, which expect turns into a panic)
RECURSIVE parse_i64(_, _, _, _)
parse_i64(s, p, q, acc) ==
  IF p >= q THEN acc
  ELSE LET v == acc * 10 + DigitValue[s[p]]
       IN IF v > I64_MAX THEN -1 ELSE parse_i64(s, p + 1, q, v)

\* match s.as_str() { "let" => .., "true" => .., "false" => .., _ => .. }
keyword_or_identifier(w) ==
  IF w = <<"l", "e", "t">> THEN Tok("Let")
  ELSE IF w = <<"t", "r", "u", "e">> THEN BoolTok(TRUE)
  ELSE IF w = <<"f", "a", "l", "s", "e">> THEN BoolTok(FALSE)
  ELSE IdentifierTok(w)

\* the arm of Lexer::next at the end of the input: None => Some(Token::Eof)
end_of_input(s) == [tok |-> Eof, pos |-> Len(s) + 1]

\* the arm of Lexer::next for a character that starts no token:
\* self.source.next(); self.next() resumes after one more character
unknown_char_resume(s, q) == Min(q + 1, Len(s) + 1)

(***************************************************************************)
(* Lexer::next: the token at position p0 and the position after it.        *)
(***************************************************************************)
RECURSIVE Lexer_next(_, _)
Lexer_next(s, p0) ==
  LET p == skip_whitespace_and_comments(s, p0)
      c == CharAt(s, p)
      q == p + 1
      two(second, double, single) ==
        IF CharAt(s, q) = second THEN [tok |-> Tok(double), pos |-> q + 1]
                                 ELSE [tok |-> Tok(single), pos |-> q]
  IN
  IF p > Len(s) THEN end_of_input(s)
  ELSE CASE c = "+" -> [tok |-> Tok("Plus"), pos |-> q]
    [] c = "-" -> [tok |-> Tok("Minus"), pos |-> q]
    [] c = "*" -> [tok |-> Tok("Star"), pos |-> q]
    [] c = "/" -> [tok |-> Tok("Slash"), pos |-> q]
    [] c = "%" -> [tok |-> Tok("Percent"), pos |-> q]
    [] c = "=" -> two("=", "EqualEqual", "Equal")
    [] c = "!" -> two("=", "NotEqual", "Not")
    [] c = "<" -> two("=", "LessEqual", "Less")
    [] c = ">" -> two("=", "GreaterEqual", "Greater")
    [] c = "&" -> IF CharAt(s, q) = "&"
                    THEN [tok |-> Tok("AndAnd"), pos |-> q + 1]
                    ELSE Lexer_next(s, q)
    [] c = "|" -> IF CharAt(s, q) = "|"
                    THEN [tok |-> Tok("OrOr"), pos |-> q + 1]
                    ELSE Lexer_next(s, q)
    [] c = "(" -> [tok |-> Tok("LeftParen"), pos |-> q]
    [] c = ")" -> [tok |-> Tok("RightParen"), pos |-> q]
    [] c = "," -> [tok |-> Tok("Comma"), pos |-> q]
    [] c = ";" -> [tok |-> Tok("Semicolon"), pos |-> q]
    [] is_ascii_digit(c) ->
         LET e == digit_run(s, q)
             n == parse_i64(s, p, e, 0)
         IN IF n < 0 THEN [tok |-> PANIC, pos |-> e]
                     ELSE [tok |-> NumberTok(n), pos |-> e]
    [] is_alphabetic(c) \/ c = "_" ->
         LET e == ident_run(s, q)
         IN [tok |-> keyword_or_identifier(SubSeq(s, p, e - 1)), pos |-> e]
    [] OTHER -> Lexer_next(s, unknown_char_resume(s, q))


(***************************************************************************)
(* The token stream a Parser pulls from its Peekable<Lexer>: the tokens    *)
(* Lexer::next yields before Eof, in order; the stream ends with PANIC     *)
(* when the call that would yield the next token unwinds.  Past its end    *)
(* the stream is Eof for ever.                                             *)
(***************************************************************************)
RECURSIVE TokenStreamFrom(_, _)
TokenStreamFrom(s, p) ==
  LET r == Lexer_next(s, p)
  IN IF r.tok = Eof THEN <<>>
     ELSE IF r.tok = PANIC THEN <<PANIC>>
     ELSE <<r.tok>> \o TokenStreamFrom(s, r.pos)

\* Parser::new(Lexer::new(src))
TokenStream(s) == TokenStreamFrom(s, 1)

(***************************************************************************)
(* AST (src/src/ast.rs).  BinaryOp.op and UnaryOp.op hold the operator's   *)
(* token.                                                                  *)
(***************************************************************************)
Number(n) == [t |-> "Number", n |-> n]
Bool(b) == [t |-> "Bool", b |-> b]
Variable(name) == [t |-> "Variable", name |-> name]
FunctionCall(name, args) == [t |-> "FunctionCall", name |-> name, args |-> args]
BinaryOp(op, left, right) ==
  [t |-> "BinaryOp", op |-> op, left |-> left, right |-> right]
UnaryOp(op, expr) == [t |-> "UnaryOp", op |-> op, expr |-> expr]
ExprStmt(expr) == [t |-> "ExprStmt", expr |-> expr]
LetDecl(name, value) == [t |-> "LetDecl", name |-> name, value |-> value]

(***************************************************************************)
(* Parser (src/src/parser.rs).  ts is the token stream and a parser        *)
(* position i the index of the next token.  A parse function returns       *)
(* Ok(value) with the position after what it consumed, Err(CompilerError), *)
(* or Panic when the token it reads is the lexer's PANIC.  A peek that     *)
(* only tests the token against a pattern lets PANIC fall through: the     *)
(* position does not move, and the next bump, consume or comparison with   *)
(* Eof at that position reports the panic.                                 *)
(***************************************************************************)
POk(v, i) == [st |-> "Ok", val |-> v, pos |-> i]
PErr(e) == [st |-> "Err", err |-> e]
PPanic == [st |-> "Panic"]
UnexpectedToken(seen) == [e |-> "UnexpectedToken", seen |-> seen]
ExpectedToken(expected, seen) ==
  [e |-> "ExpectedToken", expected |-> expected, seen |-> seen]

\* Parser::peek
peek(ts, i) == IF i <= Len(ts) THEN ts[i] ELSE Eof

\* Parser::bump: the position after the token at i
bump(ts, i) == Min(i + 1, Len(ts) + 1)

\* Parser::consume(expected): bump, and compare with the expected token
consume(ts, i, expected) ==
  LET t == peek(ts, i)
  IN IF t = PANIC THEN PPanic
     ELSE IF t = Tok(expected) THEN POk(<<>>, bump(ts, i))
     ELSE PErr(ExpectedToken(expected, t))

RECURSIVE parse_expr(_, _)
RECURSIVE parse_binary(_, _, _)
RECURSIVE parse_binary_loop(_, _, _)
RECURSIVE parse_unary(_, _)
RECURSIVE parse_primary(_, _)
RECURSIVE parse_args(_, _, _)

\* the argument loop of parse_primary: loop { args.push(parse_expr()?);
\* if !matches!(peek(), Comma) { break; } consume(Comma)?; }
parse_args(ts, i, args) ==
  LET a == parse_expr(ts, i)
  IN IF a.st # "Ok" THEN a
     ELSE IF peek(ts, a.pos).k # "Comma"
       THEN POk(Append(args, a.val), a.pos)
       ELSE parse_args(ts, bump(ts, a.pos), Append(args, a.val))

parse_primary(ts, i) ==
  LET t == peek(ts, i)
      j == bump(ts, i)
  IN CASE t = PANIC -> PPanic
     [] t.k = "Number" -> POk(Number(t.n), j)
     [] t.k = "Bool" -> POk(Bool(t.b), j)
     [] t.k = "Identifier" ->
          IF peek(ts, j).k = "LeftParen"
            THEN LET k == bump(ts, j)
                     args == IF peek(ts, k).k # "RightParen"
                               THEN parse_args(ts, k, <<>>)
                               ELSE POk(<<>>, k)
                 IN IF args.st # "Ok" THEN args
                    ELSE LET c == consume(ts, args.pos, "RightParen")
                         IN IF c.st # "Ok" THEN c
                            ELSE POk(FunctionCall(t.s, args.val), c.pos)
            ELSE POk(Variable(t.s), j)
     [] t.k = "LeftParen" ->
          LET e == parse_expr(ts, j)
          IN IF e.st # "Ok" THEN e
             ELSE LET c == consume(ts, e.pos, "RightParen")
                  IN IF c.st # "Ok" THEN c ELSE POk(e.val, c.pos)
     [] OTHER -> PErr(UnexpectedToken(t))

parse_unary(ts, i) ==
  IF peek(ts, i).k \in {"Minus", "Not"}
    THEN LET e == parse_unary(ts, bump(ts, i))
         IN IF e.st # "Ok" THEN e
            ELSE POk(UnaryOp(peek(ts, i), e.val), e.pos)
    ELSE parse_primary(ts, i)

\* BinaryLevels, were parse_equality to match Token::Equal as well
BinaryLevels_with_Equal ==
  << {"OrOr"},
     {"AndAnd"},
     {"EqualEqual", "NotEqual", "Equal"},
     {"Less", "LessEqual", "Greater", "GreaterEqual"},
     {"Plus", "Minus"},
     {"Star", "Slash", "Percent"} >>

\* The six binary levels of the grammar, loosest first: the operators
\* each of parse_logical_or, parse_logical_and, parse_equality,
\* parse_comparison, parse_term and parse_factor matches in its loop.
BinaryLevels ==
  << {"OrOr"},
     {"AndAnd"},
     {"EqualEqual", "NotEqual"},
     {"Less", "LessEqual", "Greater", "GreaterEqual"},
     {"Plus", "Minus"},
     {"Star", "Slash", "Percent"} >>

\* parse_binary_loop, were the right operand parsed at the level itself
parse_binary_loop_right_assoc(lvl, ts, l) ==
  IF peek(ts, l.pos).k \in BinaryLevels[lvl]
    THEN LET rhs == parse_binary(lvl, ts, bump(ts, l.pos))
         IN IF rhs.st # "Ok" THEN rhs
            ELSE POk(BinaryOp(peek(ts, l.pos), l.val, rhs.val), rhs.pos)
    ELSE l

\* the loop of a binary level: while matches!(self.peek(), <its operators>)
\* { op = bump(); rhs = <next level>()?; expr = BinaryOp { op, expr, rhs } }
parse_binary_loop(lvl, ts, l) ==
  IF peek(ts, l.pos).k \in BinaryLevels[lvl]
    THEN LET rhs == parse_binary(lvl + 1, ts, bump(ts, l.pos))
         IN IF rhs.st # "Ok" THEN rhs
            ELSE parse_binary_loop(lvl, ts,
                   POk(BinaryOp(peek(ts, l.pos), l.val, rhs.val), rhs.pos))
    ELSE l

\* parse_logical_or (lvl = 1) .. parse_factor (lvl = 6): parse the next
\* tighter level (parse_unary below parse_factor), then loop
parse_binary(lvl, ts, i) ==
  IF lvl > Len(BinaryLevels) THEN parse_unary(ts, i)
  ELSE LET l == parse_binary(lvl + 1, ts, i)
       IN IF l.st # "Ok" THEN l ELSE parse_binary_loop(lvl, ts, l)

parse_logical_or(ts, i) == parse_binary(1, ts, i)

parse_expr(ts, i) == parse_logical_or(ts, i)

parse_let_decl_no_semi(ts, i) ==
  LET c == consume(ts, i, "Let")
  IN IF c.st # "Ok" THEN c
     ELSE LET t == peek(ts, c.pos)
          IN IF t = PANIC THEN PPanic
             ELSE IF t.k # "Identifier"
               THEN PErr(ExpectedToken("Identifier", t))
             ELSE LET q == consume(ts, bump(ts, c.pos), "Equal")
                  IN IF q.st # "Ok" THEN q
                     ELSE LET v == parse_expr(ts, q.pos)
                          IN IF v.st # "Ok" THEN v
                             ELSE POk(LetDecl(t.s, v.val), v.pos)

parse_stmt_no_semi(ts, i) ==
  IF peek(ts, i).k = "Let"
    THEN parse_let_decl_no_semi(ts, i)
    ELSE LET e == parse_expr(ts, i)
         IN IF e.st # "Ok" THEN e ELSE POk(ExprStmt(e.val), e.pos)

\* the loop of parse_program: while self.peek() != &Token::Eof
RECURSIVE parse_program_loop(_, _, _)

\* parse_program_loop, were a statement required after every ';'
parse_program_loop_strict(ts, i, stmts) ==
  IF peek(ts, i) = Eof THEN POk(stmts, i)
  ELSE LET stmt == parse_stmt_no_semi(ts, i)
       IN IF stmt.st # "Ok" THEN stmt
          ELSE IF peek(ts, stmt.pos) # Eof
            THEN LET c == consume(ts, stmt.pos, "Semicolon")
                 IN IF c.st # "Ok" THEN c
                    ELSE IF peek(ts, c.pos) = Eof
                      THEN PErr(UnexpectedToken(Eof))
                    ELSE parse_program_loop(ts, c.pos, Append(stmts, stmt.val))
            ELSE parse_program_loop(ts, stmt.pos, Append(stmts, stmt.val))

parse_program_loop(ts, i, stmts) ==
  IF peek(ts, i) = Eof THEN POk(stmts, i)
  ELSE LET stmt == parse_stmt_no_semi(ts, i)
       IN IF stmt.st # "Ok" THEN stmt
          ELSE IF peek(ts, stmt.pos) # Eof
            THEN LET c == consume(ts, stmt.pos, "Semicolon")
                 IN IF c.st # "Ok" THEN c
                    ELSE parse_program_loop(ts, c.pos, Append(stmts, stmt.val))
            ELSE parse_program_loop(ts, stmt.pos, Append(stmts, stmt.val))

\* Parser::parse_program: Ok(Program { stmts }), Err(e), or Panic
parse_program(ts) == parse_program_loop(ts, 1, <<>>)


(***************************************************************************)
(* Backend IR (the cranelift FunctionBuilder as codegen.rs uses it): one   *)
(* sealed entry block, a sequence of instructions.  The value an           *)
(* instruction defines is named by the instruction's index.  A builder b   *)
(* holds the instructions emitted so far, the name-to-slot mapping         *)
(* (variables: HashMap<String, StackSlot>) and the number of stack slots   *)
(* created.                                                                *)
(***************************************************************************)
EmptyMap == [n \in {} |-> 0]

NewBuilder == [insts |-> <<>>, variables |-> EmptyMap, nslots |-> 0]

\* builder.ins().<inst>: append, the new value is the instruction's index
Emit(b, inst) == [b |-> [b EXCEPT !.insts = Append(@, inst)],
                  v |-> Len(b.insts) + 1]

\* insert, were the first binding of a key kept (entry().or_insert)
insert_keep_first(m, key, val) ==
  [n \in DOMAIN m \cup {key} |-> IF n \in DOMAIN m THEN m[n] ELSE val]

\* HashMap::insert: a later insert of the same key overwrites
insert(m, key, val) ==
  [n \in DOMAIN m \cup {key} |-> IF n = key THEN val ELSE m[n]]

COk(b, v) == [st |-> "Ok", b |-> b, v |-> v]
CPanic(msg) == [st |-> "Panic", msg |-> msg]

\* the condition code codegen_expr gives icmp for a comparison operator
IntCC(op) ==
  CASE op = "EqualEqual" -> "Equal"
    [] op = "NotEqual" -> "NotEqual"
    [] op = "Less" -> "SignedLessThan"
    [] op = "LessEqual" -> "SignedLessThanOrEqual"
    [] op = "Greater" -> "SignedGreaterThan"
    [] op = "GreaterEqual" -> "SignedGreaterThanOrEqual"

\* the instruction codegen_expr emits for an arithmetic operator
ArithInst(op) ==
  CASE op = "Plus" -> "iadd"
    [] op = "Minus" -> "isub"
    [] op = "Star" -> "imul"
    [] op = "Slash" -> "sdiv"
    [] op = "Percent" -> "srem"

\* codegen_logical, were band / bor applied to the operands themselves
codegen_logical_bitwise(b, op, l, r) ==
  LET val == Emit(b, [op |-> IF op = "AndAnd" THEN "band" ELSE "bor",
                      a |-> l, b |-> r])
      ext == Emit(val.b, [op |-> "uextend", a |-> val.v])
  IN [st |-> "Ok", b |-> ext.b, v |-> ext.v]

\* the Token::AndAnd and Token::OrOr arms: both operands are compared
\* with zero, the two 1-bit results are combined and zero-extended
codegen_logical(b, op, l, r) ==
  LET z == Emit(b, [op |-> "iconst", imm |-> 0])
      lb == Emit(z.b, [op |-> "icmp", cc |-> "NotEqual", a |-> l, b |-> z.v])
      rb == Emit(lb.b, [op |-> "icmp", cc |-> "NotEqual", a |-> r, b |-> z.v])
      val == Emit(rb.b, [op |-> IF op = "AndAnd" THEN "band" ELSE "bor",
                         a |-> lb.v, b |-> rb.v])
      ext == Emit(val.b, [op |-> "uextend", a |-> val.v])
  IN COk(ext.b, ext.v)

\* the match on op of the BinaryOp arm, l and r being lowered already
codegen_binary_op(b, op, l, r) ==
  IF op \in {"Plus", "Minus", "Star", "Slash", "Percent"}
    THEN LET e == Emit(b, [op |-> ArithInst(op), a |-> l, b |-> r])
         IN COk(e.b, e.v)
  ELSE IF op \in {"EqualEqual", "NotEqual", "Less", "LessEqual",
                  "Greater", "GreaterEqual"}
    THEN LET c == Emit(b, [op |-> "icmp", cc |-> IntCC(op), a |-> l, b |-> r])
             e == Emit(c.b, [op |-> "uextend", a |-> c.v])
         IN COk(e.b, e.v)
  ELSE IF op \in {"AndAnd", "OrOr"} THEN codegen_logical(b, op, l, r)
  ELSE CPanic("unreachable: Unsupported binary operator")

\* the match on op of the UnaryOp arm, val being lowered already
codegen_unary_op(b, op, val) ==
  IF op = "Minus"
    THEN LET m == Emit(b, [op |-> "iconst", imm |-> -1])
             e == Emit(m.b, [op |-> "imul", a |-> val, b |-> m.v])
         IN COk(e.b, e.v)
  ELSE IF op = "Not"
    THEN LET z == Emit(b, [op |-> "iconst", imm |-> 0])
             c == Emit(z.b, [op |-> "icmp", cc |-> "Equal", a |-> val, b |-> z.v])
             e == Emit(c.b, [op |-> "uextend", a |-> c.v])
         IN COk(e.b, e.v)
  ELSE CPanic("unreachable: Unsupported unary operator")

RECURSIVE codegen_expr(_, _)
RECURSIVE codegen_args(_, _, _)

\* codegen_binary, were the right operand lowered before the left one
codegen_binary_right_first(b, expr) ==
  LET r == codegen_expr(b, expr.right)
  IN IF r.st # "Ok" THEN r
     ELSE LET l == codegen_expr(r.b, expr.left)
          IN IF l.st # "Ok" THEN l
             ELSE codegen_binary_op(l.b, expr.op.k, l.v, r.v)

\* the BinaryOp arm of codegen_expr: left is lowered, then right, then
\* the operator
codegen_binary(b, expr) ==
  LET l == codegen_expr(b, expr.left)
  IN IF l.st # "Ok" THEN l
     ELSE LET r == codegen_expr(l.b, expr.right)
          IN IF r.st # "Ok" THEN r
             ELSE codegen_binary_op(r.b, expr.op.k, l.v, r.v)

\* args.iter().map(|arg| codegen_expr(.., arg)).collect()
codegen_args(b, args, vals) ==
  IF args = <<>> THEN [st |-> "Ok", b |-> b, vals |-> vals]
  ELSE LET a == codegen_expr(b, Head(args))
       IN IF a.st # "Ok" THEN a
          ELSE codegen_args(a.b, Tail(args), Append(vals, a.v))

\* JITCompiler::codegen_expr
codegen_expr(b, expr) ==
  CASE expr.t = "Number" ->
         LET e == Emit(b, [op |-> "iconst", imm |-> expr.n]) IN COk(e.b, e.v)
    [] expr.t = "Bool" ->
         LET e == Emit(b, [op |-> "iconst", imm |-> IF expr.b THEN 1 ELSE 0])
         IN COk(e.b, e.v)
    [] expr.t = "Variable" ->
         IF expr.name \in DOMAIN b.variables
           THEN LET e == Emit(b, [op |-> "stack_load",
                                  slot |-> b.variables[expr.name]])
                IN COk(e.b, e.v)
           ELSE CPanic("Undefined variable")
    [] expr.t = "FunctionCall" ->
         IF expr.name = <<"p", "r", "i", "n", "t">>
           THEN LET a == codegen_args(b, expr.args, <<>>)
                IN IF a.st # "Ok" THEN a
                   ELSE IF Len(a.vals) # 1
                     THEN CPanic("'print' expects exactly one argument")
                   ELSE LET e == Emit(a.b, [op |-> "call", args |-> a.vals])
                        IN COk(e.b, e.v)
           ELSE CPanic("Unknown function")
    [] expr.t = "BinaryOp" -> codegen_binary(b, expr)
    [] expr.t = "UnaryOp" ->
         LET val == codegen_expr(b, expr.expr)
         IN IF val.st # "Ok" THEN val
            ELSE codegen_unary_op(val.b, expr.op.k, val.v)

\* codegen_stmt, were the name bound to its slot before the initializer
\* is lowered
codegen_stmt_bind_first(b, stmt) ==
  IF stmt.t = "ExprStmt"
    THEN LET e == codegen_expr(b, stmt.expr)
         IN IF e.st # "Ok" THEN e ELSE COk(e.b, <<e.v>>)
    ELSE LET stack_slot == b.nslots + 1
             bound == [b EXCEPT !.nslots = stack_slot,
                                !.variables = insert(@, stmt.name, stack_slot)]
             initial_value == codegen_expr(bound, stmt.value)
         IN IF initial_value.st # "Ok" THEN initial_value
            ELSE LET s == Emit(initial_value.b,
                               [op |-> "stack_store", a |-> initial_value.v,
                                slot |-> stack_slot])
                 IN COk(s.b, <<initial_value.v>>)

\* JITCompiler::codegen_stmt: the builder after the statement and the
\* statement's value (Some(value), as a one-element sequence)
codegen_stmt(b, stmt) ==
  IF stmt.t = "ExprStmt"
    THEN LET e == codegen_expr(b, stmt.expr)
         IN IF e.st # "Ok" THEN e ELSE COk(e.b, <<e.v>>)
    ELSE LET initial_value == codegen_expr(b, stmt.value)
         IN IF initial_value.st # "Ok" THEN initial_value
            ELSE LET stack_slot == initial_value.b.nslots + 1
                     s == Emit(initial_value.b,
                               [op |-> "stack_store", a |-> initial_value.v,
                                slot |-> stack_slot])
                 IN COk([s.b EXCEPT
                           !.nslots = stack_slot,
                           !.variables = insert(@, stmt.name, stack_slot)],
                        <<initial_value.v>>)

\* the end of compile_and_run's builder block: return the last value,
\* or a fresh constant 0 when no statement produced one
emit_return(b, last_value) ==
  IF last_value = <<>>
    THEN LET z == Emit(b, [op |-> "iconst", imm |-> 0])
         IN Emit(z.b, [op |-> "return", a |-> z.v]).b
    ELSE Emit(b, [op |-> "return", a |-> last_value[1]]).b


(***************************************************************************)
(* Execution of the finalized function: what each instruction computes on  *)
(* the word.  regs[i] is the value instruction i defined, mem the stack    *)
(* slots of the frame.                                                     *)
(***************************************************************************)
Abs(n) == IF n < 0 THEN 0 - n ELSE n

\* signed division truncating toward zero, and its remainder
sdiv(a, b) ==
  IF (a < 0) = (b < 0) THEN Abs(a) \div Abs(b) ELSE 0 - (Abs(a) \div Abs(b))
srem(a, b) == a - b * sdiv(a, b)

RECURSIVE BitsAnd(_, _, _)
BitsAnd(a, b, n) ==
  IF n = 0 THEN 0
  ELSE (IF a % 2 = 1 /\ b % 2 = 1 THEN 1 ELSE 0)
       + 2 * BitsAnd(a \div 2, b \div 2, n - 1)

RECURSIVE BitsOr(_, _, _)
BitsOr(a, b, n) ==
  IF n = 0 THEN 0
  ELSE (IF a % 2 = 1 \/ b % 2 = 1 THEN 1 ELSE 0)
       + 2 * BitsOr(a \div 2, b \div 2, n - 1)

\* bitwise and / or of two words
band(a, b) == Wrap(BitsAnd(a % Pow2(I64Bits), b % Pow2(I64Bits), I64Bits))
bor(a, b) == Wrap(BitsOr(a % Pow2(I64Bits), b % Pow2(I64Bits), I64Bits))

icmp(cc, a, b) ==
  LET holds == CASE cc = "Equal" -> a = b
                 [] cc = "NotEqual" -> a # b
                 [] cc = "SignedLessThan" -> a < b
                 [] cc = "SignedLessThanOrEqual" -> a <= b
                 [] cc = "SignedGreaterThan" -> a > b
                 [] cc = "SignedGreaterThanOrEqual" -> a >= b
  IN IF holds THEN 1 ELSE 0

\* zero-extension of the narrow result of icmp, band or bor to 64 bits
uextend(v) == v % Pow2(I64Bits)

\* print_i64 (main.rs): writes x as a line to standard output, returns x
print_i64(x) == x

\* sdiv traps on a zero divisor and on INT_MIN / -1, srem on a zero divisor
Traps(inst, rg) ==
  \/ inst.op \in {"sdiv", "srem"} /\ rg[inst.b] = 0
  \/ inst.op = "sdiv" /\ rg[inst.a] = I64_MIN /\ rg[inst.b] = -1

\* the value an instruction defines (0 for one that defines none)
InstValue(inst, rg, m) ==
  CASE inst.op = "iconst" -> inst.imm
    [] inst.op = "stack_load" -> m[inst.slot]
    [] inst.op = "stack_store" -> 0
    [] inst.op = "call" -> print_i64(rg[inst.args[1]])
    [] inst.op = "iadd" -> Wrap(rg[inst.a] + rg[inst.b])
    [] inst.op = "isub" -> Wrap(rg[inst.a] - rg[inst.b])
    [] inst.op = "imul" -> Wrap(rg[inst.a] * rg[inst.b])
    [] inst.op = "sdiv" -> Wrap(sdiv(rg[inst.a], rg[inst.b]))
    [] inst.op = "srem" -> Wrap(srem(rg[inst.a], rg[inst.b]))
    [] inst.op = "icmp" -> icmp(inst.cc, rg[inst.a], rg[inst.b])
    [] inst.op = "uextend" -> uextend(rg[inst.a])
    [] inst.op = "band" -> band(rg[inst.a], rg[inst.b])
    [] inst.op = "bor" -> bor(rg[inst.a], rg[inst.b])
    [] inst.op = "return" -> rg[inst.a]

(***************************************************************************)
(* Inputs.                                                                 *)
(***************************************************************************)
SeqsUpTo(S, n) == UNION {[1..m -> S] : m \in 0..n}

\* the characters of the sources enumerated exhaustively
Alphabet == {"1", "9", "x", ";", "+", "=", "&", "|", "@", "/", "#", " ", "\n"}

ShortSources == SeqsUpTo(Alphabet, MaxSrcLen)

RECURSIVE Cat(_)
Cat(ws) == IF ws = <<>> THEN <<>> ELSE Head(ws) \o Cat(Tail(ws))

\* the source text of each binary and unary operator
OpText ==
  [Plus |-> <<"+">>, Minus |-> <<"-">>, Star |-> <<"*">>, Slash |-> <<"/">>,
   Percent |-> <<"%">>, EqualEqual |-> <<"=", "=">>,
   NotEqual |-> <<"!", "=">>, Less |-> <<"<">>, LessEqual |-> <<"<", "=">>,
   Greater |-> <<">">>, GreaterEqual |-> <<">", "=">>,
   AndAnd |-> <<"&", "&">>, OrOr |-> <<"|", "|">>, Not |-> <<"!">>]

BinaryOps == {"Plus", "Minus", "Star", "Slash", "Percent", "EqualEqual",
              "NotEqual", "Less", "LessEqual", "Greater", "GreaterEqual",
              "AndAnd", "OrOr"}
UnaryOps == {"Minus", "Not"}

W_let == <<"l", "e", "t">>
W_print == <<"p", "r", "i", "n", "t">>
W_true == <<"t", "r", "u", "e">>

\* expressions over 1, 2, 3: every pair of binary operators, bare and
\* parenthesized either way, and every unary operator beside a binary one
ExprSources ==
  {Cat(<<<<"1">>, OpText[o1], <<"2">>, OpText[o2], <<"3">>>>) :
     o1 \in BinaryOps, o2 \in BinaryOps}
  \cup {Cat(<<<<"(", "1">>, OpText[o1], <<"2", ")">>, OpText[o2], <<"3">>>>) :
     o1 \in BinaryOps, o2 \in BinaryOps}
  \cup {Cat(<<<<"1">>, OpText[o1], <<"(", "2">>, OpText[o2], <<"3", ")">>>>) :
     o1 \in BinaryOps, o2 \in BinaryOps}
  \cup {Cat(<<OpText[u], <<"1">>, OpText[o], <<"2">>>>) :
     u \in UnaryOps, o \in BinaryOps}
  \cup {Cat(<<<<"1">>, OpText[o], OpText[u], <<"2">>>>) :
     u \in UnaryOps, o \in BinaryOps}
  \cup {Cat(<<OpText[u], OpText[v], <<"1">>>>) : u \in UnaryOps, v \in UnaryOps}

\* statements, and the programs made of one or two of them: separated by
\* ';', with and without a ';' after the last, and with two of them
StmtTexts ==
  { <<"1">>,
    <<"1", "+", "2">>,
    W_let \o <<" ", "x", "=", "2">>,
    W_print \o <<"(", "3", ")">> }

SemicolonSources ==
  LET one == StmtTexts
      two == {Cat(<<s1, <<";">>, s2>>) : s1 \in StmtTexts, s2 \in StmtTexts}
  IN one \cup two
     \cup {s \o <<";">> : s \in one \cup two}
     \cup {s \o <<";", ";">> : s \in one}

\* a print statement beside a statement that does not parse or does not
\* lower, or that traps when it runs
FaultTexts ==
  { <<")">>,
    <<"y">>,
    <<"f", "(", "1", ")">>,
    W_print \o <<"(", ")">>,
    W_print \o <<"(", "1", ",", "2", ")">>,
    <<"9">>,
    <<"1", "/", "0">> }

FaultSources ==
  {Cat(<<W_print, <<"(", "1", ")", ";">>, f>>) : f \in FaultTexts}
  \cup {Cat(<<f, <<";">>, W_print, <<"(", "1", ")">>>>) : f \in FaultTexts}

\* the end-to-end scenarios
ScenarioSources ==
  { <<"!", "0", "=", "=">> \o W_true,
    <<"-", "(", "-", "3", ")">>,
    <<"7", "%", "3">>,
    Cat(<<W_print, <<"(", "7", ")", ";">>, W_print, <<"(", "6", ")">>>>),
    Cat(<<W_print, <<"(", "0", ")", "&", "&">>, W_print, <<"(", "1", ")">>>>),
    Cat(<<W_let, <<" ", "x", "=", "1", ";">>, W_let, <<" ", "x", "=", "2", ";", "x">>>>),
    Cat(<<W_let, <<" ", "x", "=", "1", ";">>, W_let,
          <<" ", "x", "=", "x", "+", "1", ";", "x">>>>),
    Cat(<<<<"#", "c", "\n">>, W_let, <<" ", "x", "=", "1", ";", "/", "/", "c", "\n",
          "x", "+", "1">>>>) }

\* the source texts given to main
MainSources ==
  ShortSources \cup ExprSources \cup SemicolonSources \cup FaultSources
  \cup ScenarioSources

X == <<"x">>
Y == <<"y">>
PrintCall(e) == FunctionCall(W_print, <<e>>)

\* a logical operator over two print calls, for every pair of words
LogicPrintPrograms ==
  {<<ExprStmt(BinaryOp(Tok(o), PrintCall(Number(x)), PrintCall(Number(y))))>> :
     o \in {"AndAnd", "OrOr"}, x \in I64, y \in I64}

\* every boolean-valued operator over every pair of words, and ! over
\* every word
BoolOps == {"EqualEqual", "NotEqual", "Less", "LessEqual", "Greater",
            "GreaterEqual", "AndAnd", "OrOr"}

BoolPrograms ==
  {<<ExprStmt(BinaryOp(Tok(o), Number(a), Number(b)))>> :
     o \in BoolOps, a \in I64, b \in I64}
  \cup {<<ExprStmt(UnaryOp(Tok("Not"), Number(a)))>> : a \in I64}

\* up to MaxLets declarations of x and y, then a read of x or of y
MaxLets == 2

LetInits == {Number(1), Number(2), Variable(X), Variable(Y),
             BinaryOp(Tok("Plus"), Variable(X), Number(1))}
LetStmts == {LetDecl(n, v) : n \in {X, Y}, v \in LetInits}

LetPrograms ==
  {Append(ds, ExprStmt(Variable(n))) :
     ds \in SeqsUpTo(LetStmts, MaxLets), n \in {X, Y}}

\* up to MaxStmts statements of either kind
MaxStmts == 3

PoolStmts == {ExprStmt(Number(1)), ExprStmt(Bool(TRUE)), LetDecl(X, Number(3)),
              ExprStmt(BinaryOp(Tok("Minus"), Variable(X), Number(5))),
              ExprStmt(PrintCall(Number(4)))}

StmtPrograms == SeqsUpTo(PoolStmts, MaxStmts)

\* the programs given to compile_and_run directly
JitPrograms ==
  LogicPrintPrograms \cup BoolPrograms \cup LetPrograms \cup StmtPrograms

\* the programs a client gives to one JITCompiler in turn, and how many
\* calls it makes at most
MaxCalls == 3

SessionPrograms ==
  { <<>>,
    <<ExprStmt(Number(1))>>,
    <<LetDecl(X, Number(1))>>,
    <<LetDecl(X, Number(2)), ExprStmt(Variable(X))>>,
    <<LetDecl(Y, Number(3)), ExprStmt(Variable(Y))>>,
    <<ExprStmt(Variable(X))>>,
    <<LetDecl(Y, Number(3)), ExprStmt(Variable(X))>> }

(***************************************************************************)
(* State.                                                                  *)
(***************************************************************************)
VARIABLES
  mode,        \* the entry point: "lex" (a client of Lexer), "main", "jit",
               \* "session" (a client calling one JITCompiler repeatedly)
  earlier,     \* the programs the JITCompiler has compiled and run before
  src,         \* the source text
  pc,          \* where the run is
  lpos,        \* "lex": the lexer's position in src
  emitted,     \* "lex": the tokens Lexer::next has returned, in order
  prog,        \* the Program (its stmts)
  k,           \* compile_and_run: index of the next statement to lower
  builder,     \* compile_and_run: the FunctionBuilder and variables
  last_value,  \* compile_and_run: Option<Value>, <<>> or <<v>>
  ip,          \* the running function: index of the next instruction
  regs,        \* the running function: the values defined so far
  mem,         \* the running function: its stack slots
  stdout,      \* lines written to standard output
  stderr,      \* lines written to standard error
  result,      \* what compile_and_run returned: <<>> or <<n>>
  exit_code    \* the process's exit status: <<>> while it runs, or <<n>>

vars == <<mode, earlier, src, pc, lpos, emitted, prog, k, builder,
          last_value, ip, regs, mem, stdout, stderr, result, exit_code>>

InitRest ==
  /\ earlier = <<>>
  /\ lpos = 1
  /\ emitted = <<>>
  /\ k = 1
  /\ builder = NewBuilder
  /\ last_value = <<>>
  /\ ip = 1
  /\ regs = <<>>
  /\ mem = EmptyMap
  /\ stdout = <<>>
  /\ stderr = <<>>
  /\ result = <<>>
  /\ exit_code = <<>>

\* a client holding Lexer::new(src)
InitLex ==
  /\ mode = "lex" /\ pc = "lex"
  /\ src \in ShortSources
  /\ prog = <<>>
  /\ InitRest

\* the process started on a file holding src
InitMain ==
  /\ mode = "main" /\ pc = "main"
  /\ src \in MainSources
  /\ prog = <<>>
  /\ InitRest

\* a client holding JITCompiler::new() and a Program
InitJit ==
  /\ mode = "jit" /\ pc = "compile"
  /\ src = <<>>
  /\ prog \in JitPrograms
  /\ InitRest

\* a client holding JITCompiler::new() that will call compile_and_run
\* on one Program after another
InitSession ==
  /\ mode = "session" /\ pc = "compile"
  /\ src = <<>>
  /\ prog \in SessionPrograms
  /\ InitRest

Init == InitLex \/ InitMain \/ InitJit \/ InitSession

(***************************************************************************)
(* Actions.                                                                *)
(***************************************************************************)
EofCalls == Cardinality({i \in DOMAIN emitted : emitted[i] = Eof})

\* LexerNext, were the iterator to end after its first Eof
LexerNext_fused ==
  /\ pc = "lex"
  /\ EofCalls <= MaxEofCalls
  /\ LET r == Lexer_next(src, lpos)
     IN IF r.tok = PANIC
          THEN /\ pc' = "panicked"
               /\ UNCHANGED <<lpos, emitted>>
          ELSE /\ emitted' = Append(emitted, IF EofCalls > 0 THEN Tok("None")
                                                             ELSE r.tok)
               /\ lpos' = r.pos
               /\ pc' = pc
  /\ UNCHANGED <<earlier, mode, src, prog, k, builder, last_value, ip, regs, mem,
                 stdout, stderr, result, exit_code>>

\* one call of Lexer::next by the client
LexerNext ==
  /\ pc = "lex"
  /\ EofCalls <= MaxEofCalls
  /\ LET r == Lexer_next(src, lpos)
     IN IF r.tok = PANIC
          THEN /\ pc' = "panicked"
               /\ UNCHANGED <<lpos, emitted>>
          ELSE /\ emitted' = Append(emitted, r.tok)
               /\ lpos' = r.pos
               /\ pc' = pc
  /\ UNCHANGED <<earlier, mode, src, prog, k, builder, last_value, ip, regs, mem,
                 stdout, stderr, result, exit_code>>

\* main: parser.parse_program() and the match on its result.  A panic
\* ends the process with status 101; the Err arm writes the diagnostic
\* and main returns.
main ==
  /\ pc = "main"
  /\ LET r == parse_program(TokenStream(src))
     IN CASE r.st = "Ok" ->
               /\ prog' = r.val
               /\ pc' = "compile"
               /\ UNCHANGED <<stderr, exit_code>>
          [] r.st = "Err" ->
               /\ stderr' = Append(stderr, [line |-> "Error parsing program",
                                            e |-> r.err])
               /\ pc' = "exit"
               /\ exit_code' = <<0>>
               /\ prog' = prog
          [] r.st = "Panic" ->
               /\ stderr' = Append(stderr, [line |-> "panicked",
                                            e |-> "Invalid number"])
               /\ pc' = "exit"
               /\ exit_code' = <<101>>
               /\ prog' = prog
  /\ UNCHANGED <<earlier, mode, src, lpos, emitted, k, builder, last_value, ip, regs,
                 mem, stdout, result>>

\* compile_and_run, were the name-to-slot mapping a field of JITCompiler
\* that the call does not reset
compile_and_run_keep_variables ==
  /\ pc = "compile"
  /\ builder' = [NewBuilder EXCEPT !.variables = builder.variables,
                                   !.nslots = builder.nslots]
  /\ last_value' = <<>>
  /\ k' = 1
  /\ pc' = "lower"
  /\ UNCHANGED <<earlier, mode, src, lpos, emitted, prog, ip, regs, mem,
                 stdout, stderr, result, exit_code>>

\* compile_and_run, up to the statement loop: the function is declared,
\* variables is a new HashMap, the entry block is created and sealed
compile_and_run ==
  /\ pc = "compile"
  /\ builder' = NewBuilder
  /\ last_value' = <<>>
  /\ k' = 1
  /\ pc' = "lower"
  /\ UNCHANGED <<earlier, mode, src, lpos, emitted, prog, ip, regs, mem, stdout,
                 stderr, result, exit_code>>

\* lower_stmt, were last_value set by the first statement only
lower_stmt_keep_first ==
  /\ pc = "lower"
  /\ k <= Len(prog)
  /\ LET r == codegen_stmt(builder, prog[k])
     IN IF r.st = "Ok"
          THEN /\ builder' = r.b
               /\ last_value' = IF last_value = <<>> THEN r.v ELSE last_value
               /\ k' = k + 1
               /\ UNCHANGED <<pc, stderr, exit_code>>
          ELSE /\ stderr' = Append(stderr, [line |-> "panicked", e |-> r.msg])
               /\ pc' = "exit"
               /\ exit_code' = <<101>>
               /\ UNCHANGED <<builder, last_value, k>>
  /\ UNCHANGED <<earlier, mode, src, lpos, emitted, prog, ip, regs, mem, stdout,
                 result>>

\* lower_stmt, were a statement that does not lower left out
lower_stmt_skip ==
  /\ pc = "lower"
  /\ k <= Len(prog)
  /\ LET r == codegen_stmt(builder, prog[k])
     IN IF r.st = "Ok"
          THEN /\ builder' = r.b
               /\ last_value' = r.v
          ELSE UNCHANGED <<builder, last_value>>
  /\ k' = k + 1
  /\ UNCHANGED <<earlier, mode, src, pc, lpos, emitted, prog, ip, regs, mem, stdout,
                 stderr, result, exit_code>>

\* one iteration of for stmt in &prog.stmts: last_value = codegen_stmt(..).
\* A panic of the lowering unwinds out of compile_and_run.
lower_stmt ==
  /\ pc = "lower"
  /\ k <= Len(prog)
  /\ LET r == codegen_stmt(builder, prog[k])
     IN IF r.st = "Ok"
          THEN /\ builder' = r.b
               /\ last_value' = r.v
               /\ k' = k + 1
               /\ UNCHANGED <<pc, stderr, exit_code>>
          ELSE /\ stderr' = Append(stderr, [line |-> "panicked", e |-> r.msg])
               /\ pc' = "exit"
               /\ exit_code' = <<101>>
               /\ UNCHANGED <<builder, last_value, k>>
  /\ UNCHANGED <<earlier, mode, src, lpos, emitted, prog, ip, regs, mem, stdout,
                 result>>

\* the rest of compile_and_run before the call: the return is emitted,
\* the function is defined and finalized
finalize ==
  /\ pc = "lower"
  /\ k > Len(prog)
  /\ builder' = [builder EXCEPT !.insts = emit_return(builder, last_value).insts]
  /\ ip' = 1
  /\ regs' = <<>>
  /\ mem' = EmptyMap
  /\ pc' = "call"
  /\ UNCHANGED <<earlier, mode, src, lpos, emitted, prog, k, last_value, stdout,
                 stderr, result, exit_code>>

\* compiled_fn(): the finalized function executes its next instruction.
\* A division trap kills the process (SIGFPE); return_ hands the value
\* back to compile_and_run, which returns it.
exec_inst ==
  /\ pc = "call"
  /\ LET inst == builder.insts[ip]
     IN IF Traps(inst, regs)
          THEN /\ pc' = "exit"
               /\ exit_code' = <<136>>
               /\ UNCHANGED <<ip, regs, mem, stdout, result>>
          ELSE /\ regs' = Append(regs, InstValue(inst, regs, mem))
               /\ ip' = ip + 1
               /\ mem' = IF inst.op = "stack_store"
                           THEN insert(mem, inst.slot, regs[inst.a])
                           ELSE mem
               /\ stdout' = IF inst.op = "call"
                              THEN Append(stdout, [print |-> regs[inst.args[1]]])
                              ELSE stdout
               /\ result' = IF inst.op = "return" THEN <<regs[inst.a]>>
                                                  ELSE result
               /\ pc' = IF inst.op = "return" THEN "returned" ELSE pc
               /\ exit_code' = exit_code
  /\ UNCHANGED <<earlier, mode, src, lpos, emitted, prog, k, builder, last_value,
                 stderr>>

\* main after compile_and_run returned: println!("Execution result: {}"),
\* and main returns
print_result ==
  /\ pc = "returned"
  /\ mode = "main"
  /\ stdout' = Append(stdout, [result |-> result[1]])
  /\ pc' = "exit"
  /\ exit_code' = <<0>>
  /\ UNCHANGED <<earlier, mode, src, lpos, emitted, prog, k, builder, last_value, ip,
                 regs, mem, stderr, result>>

\* the client, compile_and_run having returned, calls it again on the
\* same JITCompiler with another Program
call_again ==
  /\ mode = "session"
  /\ pc = "returned"
  /\ Len(earlier) + 1 < MaxCalls
  /\ \E p \in SessionPrograms : prog' = p
  /\ earlier' = Append(earlier, prog)
  /\ result' = <<>>
  /\ pc' = "compile"
  /\ UNCHANGED <<mode, src, lpos, emitted, k, builder, last_value, ip, regs,
                 mem, stdout, stderr, exit_code>>

Next ==
  \/ LexerNext
  \/ main
  \/ compile_and_run
  \/ lower_stmt
  \/ finalize
  \/ exec_inst
  \/ print_result
  \/ call_again

Spec == Init /\ [][Next]_vars

\* a client that calls Lexer::next until it has seen Eof MaxEofCalls + 1
\* times, and does not stop calling before
LexSpec == InitLex /\ [][LexerNext]_vars /\ WF_vars(LexerNext)


(***************************************************************************)
(* What the claims speak of.                                               *)
(***************************************************************************)
\* main took the Err arm of its match on parse_program's result
ParseFailed ==
  /\ mode = "main"
  /\ stderr # <<>>
  /\ stderr[1].line = "Error parsing program"

\* the lines print_i64 wrote, and the Execution result lines
PrintLines == SelectSeq(stdout, LAMBDA l : "print" \in DOMAIN l)
ResultLines == SelectSeq(stdout, LAMBDA l : "result" \in DOMAIN l)

\* the token stream cut at its ';' tokens
RECURSIVE SplitAtSemicolon(_)
SplitAtSemicolon(ts) ==
  IF \A i \in DOMAIN ts : ts[i] # Tok("Semicolon") THEN <<ts>>
  ELSE LET i == CHOOSE j \in DOMAIN ts :
                   /\ ts[j] = Tok("Semicolon")
                   /\ \A h \in 1..(j - 1) : ts[h] # Tok("Semicolon")
       IN <<SubSeq(ts, 1, i - 1)>> \o SplitAtSemicolon(SubSeq(ts, i + 1, Len(ts)))

\* the tokens are exactly one well-formed statement
IsStatement(seg) ==
  /\ seg # <<>>
  /\ LET r == parse_stmt_no_semi(seg, 1)
     IN r.st = "Ok" /\ r.pos = Len(seg) + 1

\* one or more well-formed statements separated by ';', then a final ';'
\* directly followed by Eof
TrailingSemicolon(ts) ==
  LET segs == SplitAtSemicolon(ts)
  IN /\ Len(segs) >= 2
     /\ segs[Len(segs)] = <<>>
     /\ \A j \in 1..(Len(segs) - 1) : IsStatement(segs[j])

\* the statements of such a stream, in order
StatementsOf(ts) ==
  LET segs == SplitAtSemicolon(ts)
  IN [j \in 1..(Len(segs) - 1) |-> parse_stmt_no_semi(segs[j], 1).val]

ReplaceAt(s, i, c) == [s EXCEPT ![i] = c]

\* the i-th character starts no token: an unrecognized character, or a
\* '&' or '|' that is not doubled
StartsNoToken(s, i) ==
  \/ s[i] = "@"
  \/ /\ s[i] \in {"&", "|"}
     /\ CharAt(s, i - 1) # s[i]
     /\ CharAt(s, i + 1) # s[i]

\* the client has been handed Eof
LexDone == emitted # <<>> /\ emitted[Len(emitted)] = Eof

\* the tokens handed out before the first Eof
EmittedTokens == SelectSeq(emitted, LAMBDA tk : tk # Eof)

(***************************************************************************)
(* C2 as stated: a character that starts no token is dropped and lexing    *)
(* goes on with the very next character.  Once the lexer has reached Eof,  *)
(* the tokens it returned are those of the source with that character      *)
(* replaced by a space.                                                    *)
(***************************************************************************)
C2_DroppedCharIsSpace ==
  (mode = "lex" /\ LexDone)
    => \A i \in DOMAIN src :
         StartsNoToken(src, i)
           => EmittedTokens = TokenStream(ReplaceAt(src, i, " "))

(***************************************************************************)
(* C3 as stated: the process exits nonzero whenever parse_program returns  *)
(* an error, exits 0 only when the program parsed and ran to completion,   *)
(* and prints no Execution result line on a parse error.                   *)
(***************************************************************************)
C3_ParseErrorExitsNonzero ==
  (mode = "main" /\ exit_code # <<>>)
    => /\ ParseFailed => (exit_code[1] # 0 /\ ResultLines = <<>>)
       /\ exit_code[1] = 0 => (~ParseFailed /\ ResultLines # <<>>)


(***************************************************************************)
(* The value of an expression and of a statement under the language's      *)
(* semantics: every value is a word, booleans are 0 and 1, a variable is   *)
(* what its latest declaration stored, print returns its argument.  env    *)
(* maps the declared names to their values.                                *)
(***************************************************************************)
Truth(p) == IF p THEN 1 ELSE 0

ValueOfBinary(op, l, r) ==
  CASE op = "Plus" -> Wrap(l + r)
    [] op = "Minus" -> Wrap(l - r)
    [] op = "Star" -> Wrap(l * r)
    [] op = "Slash" -> Wrap(sdiv(l, r))
    [] op = "Percent" -> Wrap(srem(l, r))
    [] op = "EqualEqual" -> Truth(l = r)
    [] op = "NotEqual" -> Truth(l # r)
    [] op = "Less" -> Truth(l < r)
    [] op = "LessEqual" -> Truth(l <= r)
    [] op = "Greater" -> Truth(l > r)
    [] op = "GreaterEqual" -> Truth(l >= r)
    [] op = "AndAnd" -> Truth(l # 0 /\ r # 0)
    [] op = "OrOr" -> Truth(l # 0 \/ r # 0)

RECURSIVE ValueOf(_, _)
ValueOf(e, env) ==
  CASE e.t = "Number" -> e.n
    [] e.t = "Bool" -> Truth(e.b)
    [] e.t = "Variable" -> env[e.name]
    [] e.t = "FunctionCall" -> ValueOf(e.args[1], env)
    [] e.t = "BinaryOp" ->
         ValueOfBinary(e.op.k, ValueOf(e.left, env), ValueOf(e.right, env))
    [] e.t = "UnaryOp" ->
         IF e.op.k = "Minus" THEN Wrap(0 - ValueOf(e.expr, env))
                             ELSE Truth(ValueOf(e.expr, env) = 0)

\* the value of a statement: of its expression, or the one it stores
ValueOfStmt(s, env) ==
  IF s.t = "LetDecl" THEN ValueOf(s.value, env) ELSE ValueOf(s.expr, env)

\* the environment after the statements, in order, starting from env
RECURSIVE EnvAfter(_, _)
EnvAfter(stmts, env) ==
  IF stmts = <<>> THEN env
  ELSE LET s == Head(stmts)
       IN EnvAfter(Tail(stmts),
                   IF s.t = "LetDecl"
                     THEN [n \in DOMAIN env \cup {s.name} |->
                             IF n = s.name THEN ValueOf(s.value, env) ELSE env[n]]
                     ELSE env)

Front(s) == SubSeq(s, 1, Len(s) - 1)
Last(s) == s[Len(s)]

(***************************************************************************)
(* C4: compile_and_run returns the value of the last statement in source   *)
(* order (for a final LetDecl the value stored, for a final ExprStmt the   *)
(* value of the expression) whatever the earlier statements are worth,     *)
(* and 0 for a program with no statements.                                 *)
(***************************************************************************)
C4_ReturnsLastStatement ==
  result # <<>>
    => result[1] = IF prog = <<>> THEN 0
                   ELSE ValueOfStmt(Last(prog), EnvAfter(Front(prog), EmptyMap))

\* a three-statement program ending in a LetDecl has returned the value
\* stored, which is not the value of its first statement
C4_Witness ==
  /\ result = <<3>>
  /\ Len(prog) = 3
  /\ prog[1] = ExprStmt(Number(1))
  /\ prog[3].t = "LetDecl"

\* the program is one statement, a logical operator over two print calls
IsLogicPrint(p) ==
  /\ Len(p) = 1
  /\ p[1].t = "ExprStmt"
  /\ p[1].expr.t = "BinaryOp"
  /\ p[1].expr.op.k \in {"AndAnd", "OrOr"}
  /\ \A side \in {p[1].expr.left, p[1].expr.right} :
       /\ side.t = "FunctionCall"
       /\ side.name = W_print
       /\ Len(side.args) = 1
       /\ side.args[1].t = "Number"

(***************************************************************************)
(* C5: the logical operators never short-circuit.  For print(x) && print(y)*)
(* and print(x) || print(y) the lines written are never anything but x,    *)
(* then y, and both have been written when the function returns, whatever  *)
(* x and y are.                                                            *)
(***************************************************************************)
C5_BothOperandsInOrder ==
  IsLogicPrint(prog)
    => LET x == [print |-> prog[1].expr.left.args[1].n]
           y == [print |-> prog[1].expr.right.args[1].n]
       IN /\ PrintLines \in {<<>>, <<x>>, <<x, y>>}
          /\ result # <<>> => PrintLines = <<x, y>>

\* print(0) && print(y), y nonzero, has returned with both lines written
C5_Witness ==
  /\ IsLogicPrint(prog)
  /\ prog[1].expr.op.k = "AndAnd"
  /\ prog[1].expr.left.args[1].n = 0
  /\ prog[1].expr.right.args[1].n = 5
  /\ result # <<>>
  /\ PrintLines = <<[print |-> 0], [print |-> 5]>>

\* the program is declarations only, then a read of one variable
IsLetsThenRead(p) ==
  /\ p # <<>>
  /\ \A i \in 1..(Len(p) - 1) : p[i].t = "LetDecl"
  /\ Last(p).t = "ExprStmt"
  /\ Last(p).expr.t = "Variable"

\* the index of the most recent declaration of name n among stmts
LatestLet(stmts, n) ==
  CHOOSE i \in DOMAIN stmts :
    /\ stmts[i].name = n
    /\ \A j \in (i + 1)..Len(stmts) : stmts[j].name # n

(***************************************************************************)
(* C6: let-shadowing is observable.  After any sequence of declarations a  *)
(* read of x yields the value stored by the most recent `let x = ...`,     *)
(* whose initializer saw the bindings made before it (the previous x       *)
(* included); declarations of other names after it do not change it.       *)
(***************************************************************************)
C6_ReadsLatestLet ==
  (IsLetsThenRead(prog) /\ result # <<>>)
    => LET n == Last(prog).expr.name
           i == LatestLet(Front(prog), n)
       IN result[1] = ValueOf(prog[i].value,
                              EnvAfter(SubSeq(prog, 1, i - 1), EmptyMap))

\* let x = 1; let x = x + 1; x has returned 2
C6_Witness ==
  /\ prog = <<LetDecl(X, Number(1)),
              LetDecl(X, BinaryOp(Tok("Plus"), Variable(X), Number(1))),
              ExprStmt(Variable(X))>>
  /\ result = <<2>>

\* the expression's top-level operator is a comparison, !, && or ||
IsBoolTop(e) ==
  \/ e.t = "BinaryOp" /\ e.op.k \in BoolOps
  \/ e.t = "UnaryOp" /\ e.op.k = "Not"

(***************************************************************************)
(* C7: booleans lower to 0/1.  An expression whose top-level operator is a *)
(* comparison, !, && or || evaluates to 0 or 1 for all operand words; &&   *)
(* and || take every nonzero operand as true, !v is 1 exactly when v is 0, *)
(* and a comparison is 1 exactly when it holds of the signed operands.     *)
(***************************************************************************)
C7_BooleansAreZeroOrOne ==
  (result # <<>> /\ prog # <<>> /\ Last(prog).t = "ExprStmt"
     /\ IsBoolTop(Last(prog).expr))
    => LET e == Last(prog).expr
       IN /\ result[1] \in {0, 1}
          /\ (e.t = "UnaryOp" /\ e.expr.t = "Number")
               => (result[1] = 1 <=> e.expr.n = 0)
          /\ (e.t = "BinaryOp" /\ e.left.t = "Number" /\ e.right.t = "Number")
               => LET a == e.left.n
                      b == e.right.n
                  IN CASE e.op.k = "AndAnd" -> (result[1] = 1 <=> (a # 0 /\ b # 0))
                       [] e.op.k = "OrOr" -> (result[1] = 1 <=> (a # 0 \/ b # 0))
                       [] e.op.k = "EqualEqual" -> (result[1] = 1 <=> a = b)
                       [] e.op.k = "NotEqual" -> (result[1] = 1 <=> a # b)
                       [] e.op.k = "Less" -> (result[1] = 1 <=> a < b)
                       [] e.op.k = "LessEqual" -> (result[1] = 1 <=> a <= b)
                       [] e.op.k = "Greater" -> (result[1] = 1 <=> a > b)
                       [] e.op.k = "GreaterEqual" -> (result[1] = 1 <=> a >= b)

\* 2 && 1 has returned 1
C7_Witness ==
  /\ prog = <<ExprStmt(BinaryOp(Tok("AndAnd"), Number(2), Number(1)))>>
  /\ result = <<1>>

(***************************************************************************)
(* The grammar, as a relation between a token sequence and a tree.  Each   *)
(* binary operator has a level, 1 the loosest; unary - and ! are level 7.  *)
(* toks derives e at level lvl when e's operator binds at least as tight   *)
(* as lvl, its left operand derives at the operator's own level and its    *)
(* right operand at the next tighter one; a parenthesized expression       *)
(* derives at every level.                                                 *)
(***************************************************************************)
GrammarLevel ==
  [OrOr |-> 1, AndAnd |-> 2, EqualEqual |-> 3, NotEqual |-> 3,
   Less |-> 4, LessEqual |-> 4, Greater |-> 4, GreaterEqual |-> 4,
   Plus |-> 5, Minus |-> 5, Star |-> 6, Slash |-> 6, Percent |-> 6]

Inner(toks) == SubSeq(toks, 2, Len(toks) - 1)

RECURSIVE Derives(_, _, _)
RECURSIVE DerivesArgs(_, _)
Derives(lvl, toks, e) ==
  \/ /\ Len(toks) >= 3
     /\ toks[1] = Tok("LeftParen")
     /\ toks[Len(toks)] = Tok("RightParen")
     /\ Derives(1, Inner(toks), e)
  \/ CASE e.t = "BinaryOp" ->
            /\ GrammarLevel[e.op.k] >= lvl
            /\ \E i \in 2..(Len(toks) - 1) :
                 /\ toks[i] = e.op
                 /\ Derives(GrammarLevel[e.op.k], SubSeq(toks, 1, i - 1), e.left)
                 /\ Derives(GrammarLevel[e.op.k] + 1,
                            SubSeq(toks, i + 1, Len(toks)), e.right)
       [] e.t = "UnaryOp" ->
            /\ Len(toks) >= 2
            /\ toks[1] = e.op
            /\ e.op.k \in {"Minus", "Not"}
            /\ Derives(7, Tail(toks), e.expr)
       [] e.t = "Number" -> toks = <<NumberTok(e.n)>>
       [] e.t = "Bool" -> toks = <<BoolTok(e.b)>>
       [] e.t = "Variable" -> toks = <<IdentifierTok(e.name)>>
       [] e.t = "FunctionCall" ->
            /\ Len(toks) >= 3
            /\ toks[1] = IdentifierTok(e.name)
            /\ toks[2] = Tok("LeftParen")
            /\ toks[Len(toks)] = Tok("RightParen")
            /\ DerivesArgs(SubSeq(toks, 3, Len(toks) - 1), e.args)

DerivesArgs(toks, args) ==
  IF args = <<>> THEN toks = <<>>
  ELSE IF Len(args) = 1 THEN Derives(1, toks, args[1])
  ELSE \E i \in 2..(Len(toks) - 1) :
         /\ toks[i] = Tok("Comma")
         /\ Derives(1, SubSeq(toks, 1, i - 1), args[1])
         /\ DerivesArgs(SubSeq(toks, i + 1, Len(toks)), Tail(args))

DerivesStmt(toks, s) ==
  IF s.t = "LetDecl"
    THEN /\ Len(toks) >= 4
         /\ toks[1] = Tok("Let")
         /\ toks[2] = IdentifierTok(s.name)
         /\ toks[3] = Tok("Equal")
         /\ Derives(1, SubSeq(toks, 4, Len(toks)), s.value)
    ELSE Derives(1, toks, s.expr)

\* the token runs of the statements of a source
StatementTokens(s) ==
  SelectSeq(SplitAtSemicolon(TokenStream(s)), LAMBDA seg : seg # <<>>)

Num1 == Number(1)
Num2 == Number(2)
Num3 == Number(3)

(***************************************************************************)
(* C8: the parser builds the tree the grammar prescribes.  Every statement *)
(* of a parsed Program is the tree its tokens derive: binary operators     *)
(* are left-associative within their level, the levels bind in the order   *)
(* || < && < == != < < <= > >= < + - < * / % < unary - !, and parentheses  *)
(* override both.  So 1 - 2 - 3 is (1 - 2) - 3, 1 < 2 < 3 is (1 < 2) < 3,  *)
(* 1 - (2 - 3) keeps its parentheses, 1 + 2 * 3 is 7 and !0 == true is     *)
(* (!0) == true.                                                           *)
(***************************************************************************)
C8_TreeIsTheGrammars ==
  /\ (mode = "main" /\ pc = "compile")
       => /\ Len(prog) = Len(StatementTokens(src))
          /\ \A i \in DOMAIN prog : DerivesStmt(StatementTokens(src)[i], prog[i])
          /\ src = <<"1", "-", "2", "-", "3">>
               => prog = <<ExprStmt(BinaryOp(Tok("Minus"),
                             BinaryOp(Tok("Minus"), Num1, Num2), Num3))>>
          /\ src = <<"1", "<", "2", "<", "3">>
               => prog = <<ExprStmt(BinaryOp(Tok("Less"),
                             BinaryOp(Tok("Less"), Num1, Num2), Num3))>>
          /\ src = <<"1", "-", "(", "2", "-", "3", ")">>
               => prog = <<ExprStmt(BinaryOp(Tok("Minus"), Num1,
                             BinaryOp(Tok("Minus"), Num2, Num3)))>>
          /\ src = <<"!", "0", "=", "=">> \o W_true
               => prog = <<ExprStmt(BinaryOp(Tok("EqualEqual"),
                             UnaryOp(Tok("Not"), Number(0)), Bool(TRUE)))>>
  /\ (mode = "main" /\ result # <<>> /\ src = <<"1", "+", "2", "*", "3">>)
       => result = <<7>>

\* 1 + 2 * 3 has been parsed into 1 + (2 * 3) and has returned 7
C8_Witness ==
  /\ mode = "main"
  /\ src = <<"1", "+", "2", "*", "3">>
  /\ prog = <<ExprStmt(BinaryOp(Tok("Plus"), Num1,
                BinaryOp(Tok("Star"), Num2, Num3)))>>
  /\ result = <<7>>

\* the decimal value of the characters s[i..j], all of them digits
RECURSIVE DecimalValue(_, _, _)
DecimalValue(s, i, j) ==
  IF j < i THEN 0 ELSE 10 * DecimalValue(s, i, j - 1) + DigitValue[s[j]]

\* the source holds a run of digits whose value no i64 holds
HasOverflowingDigits(s) ==
  \E i \in DOMAIN s : \E j \in i..Len(s) :
    /\ \A h \in i..j : is_ascii_digit(s[h])
    /\ DecimalValue(s, i, j) > I64_MAX

\* nothing but Eof comes after an Eof, and None never comes
EofIsSticky ==
  /\ \A i \in DOMAIN emitted : emitted[i].k # "None"
  /\ \A i \in DOMAIN emitted : \A j \in DOMAIN emitted :
       (i < j /\ emitted[i] = Eof) => emitted[j] = Eof

\* a call either moves past at least one character or returns Eof with
\* the position at the end of the input
CallAdvances ==
  LexerNext
    => \/ pc' = "panicked"
       \/ lpos' > lpos /\ lpos' <= Len(src) + 1
       \/ lpos' = lpos /\ lpos = Len(src) + 1 /\ emitted'[Len(emitted')] = Eof

(***************************************************************************)
(* C9 as stated: on every finite input the lexer reaches the end after     *)
(* finitely many advance calls, and once it has returned Eof every later   *)
(* advance returns Eof again; it never returns None and never a non-Eof    *)
(* token after an Eof.                                                     *)
(***************************************************************************)
C9_LexerAlwaysReachesEof ==
  /\ (mode = "lex") ~> LexDone
  /\ []EofIsSticky

(***************************************************************************)
(* C9 as amended: on every finite input in which no numeric literal        *)
(* overflows i64 the lexer reaches the end after finitely many advance     *)
(* calls, each of which moves forward or returns Eof; a call panics only   *)
(* on an overflowing literal; once the lexer has returned Eof every later  *)
(* advance returns Eof again; it never returns None and never a non-Eof    *)
(* token after an Eof.                                                     *)
(***************************************************************************)
C9_LexerReachesEofUnlessOverflow ==
  /\ (mode = "lex" /\ ~HasOverflowingDigits(src)) ~> LexDone
  /\ [](pc = "panicked" => HasOverflowingDigits(src))
  /\ []EofIsSticky
  /\ [][CallAdvances]_vars

\* a source with a dropped character and a comment has been lexed to its
\* end, and the calls after the first Eof returned Eof again
C9_Witness ==
  /\ mode = "lex"
  /\ src = <<"1", "@", "#">>
  /\ emitted = <<NumberTok(1), Eof, Eof, Eof>>

\* the expression reads a name outside declared, calls a function other
\* than print, or calls print with an argument count other than one
RECURSIVE ExprFault(_, _)
ExprFault(e, declared) ==
  CASE e.t = "Variable" -> e.name \notin declared
    [] e.t = "FunctionCall" ->
         \/ e.name # W_print
         \/ Len(e.args) # 1
         \/ \E i \in DOMAIN e.args : ExprFault(e.args[i], declared)
    [] e.t = "BinaryOp" -> ExprFault(e.left, declared) \/ ExprFault(e.right, declared)
    [] e.t = "UnaryOp" -> ExprFault(e.expr, declared)
    [] OTHER -> FALSE

\* some statement has such a fault, given the names declared before it
RECURSIVE ProgramFault(_, _)
ProgramFault(stmts, declared) ==
  /\ stmts # <<>>
  /\ LET s == Head(stmts)
     IN IF s.t = "LetDecl"
          THEN \/ ExprFault(s.value, declared)
               \/ ProgramFault(Tail(stmts), declared \cup {s.name})
          ELSE \/ ExprFault(s.expr, declared)
               \/ ProgramFault(Tail(stmts), declared)

(***************************************************************************)
(* C10: generated code runs only after the whole program has been parsed,  *)
(* lowered and finalized.  A program with a parse error, an undefined      *)
(* variable, an unknown function or a print call whose argument count is   *)
(* not one, anywhere in it, writes no print line at all, not even for the  *)
(* print calls of the statements before the faulty one; and a print line   *)
(* is written only once every statement is lowered and the function ends   *)
(* in its return.                                                          *)
(***************************************************************************)
C10_NoOutputBeforeFinalized ==
  /\ ParseFailed => stdout = <<>>
  /\ ProgramFault(prog, {}) => stdout = <<>>
  /\ stdout # <<>>
       => /\ pc \in {"call", "returned", "exit"}
          /\ k > Len(prog)
          /\ builder.insts[Len(builder.insts)].op = "return"

\* print(1); y has ended in the panic of lowering y, with nothing written
C10_Witness ==
  /\ mode = "main"
  /\ src = Cat(<<W_print, <<"(", "1", ")", ";", "y">>>>)
  /\ prog = <<ExprStmt(PrintCall(Num1)), ExprStmt(Variable(Y))>>
  /\ ProgramFault(prog, {})
  /\ pc = "exit"
  /\ exit_code = <<101>>
  /\ stdout = <<>>

\* every BinaryOp.op and every UnaryOp.op of the expression is one of
\* the operators codegen_expr's matches have an arm for
RECURSIVE OperatorsValid(_)
OperatorsValid(e) ==
  CASE e.t = "BinaryOp" ->
         /\ e.op.k \in {"Plus", "Minus", "Star", "Slash", "Percent",
                        "EqualEqual", "NotEqual", "Less", "LessEqual",
                        "Greater", "GreaterEqual", "AndAnd", "OrOr"}
         /\ OperatorsValid(e.left)
         /\ OperatorsValid(e.right)
    [] e.t = "UnaryOp" -> e.op.k \in {"Minus", "Not"} /\ OperatorsValid(e.expr)
    [] e.t = "FunctionCall" -> \A i \in DOMAIN e.args : OperatorsValid(e.args[i])
    [] OTHER -> TRUE

StmtOperatorsValid(s) ==
  OperatorsValid(IF s.t = "LetDecl" THEN s.value ELSE s.expr)

\* lowering ended in one of the two unreachable! arms of codegen_expr
HitUnreachable ==
  \E i \in DOMAIN stderr :
    /\ stderr[i].line = "panicked"
    /\ stderr[i].e \in {"unreachable: Unsupported binary operator",
                        "unreachable: Unsupported unary operator"}

(***************************************************************************)
(* C11: every AST parse_program returns satisfies the operator invariant:  *)
(* each BinaryOp.op is one of Plus, Minus, Star, Slash, Percent,           *)
(* EqualEqual, NotEqual, Less, LessEqual, Greater, GreaterEqual, AndAnd,   *)
(* OrOr and each UnaryOp.op is Minus or Not; so lowering a parsed program  *)
(* never reaches the unreachable! arms of codegen_expr.                    *)
(***************************************************************************)
C11_OperatorInvariant ==
  mode = "main"
    => /\ \A i \in DOMAIN prog : StmtOperatorsValid(prog[i])
       /\ ~HitUnreachable

\* -1 + 2 has been parsed into a BinaryOp over a UnaryOp, lowered and run
C11_Witness ==
  /\ mode = "main"
  /\ prog = <<ExprStmt(BinaryOp(Tok("Plus"), UnaryOp(Tok("Minus"), Num1), Num2))>>
  /\ result = <<1>>

\* the expression reads a name outside declared
RECURSIVE ReadsUnbound(_, _)
ReadsUnbound(e, declared) ==
  CASE e.t = "Variable" -> e.name \notin declared
    [] e.t = "FunctionCall" ->
         \E i \in DOMAIN e.args : ReadsUnbound(e.args[i], declared)
    [] e.t = "BinaryOp" ->
         ReadsUnbound(e.left, declared) \/ ReadsUnbound(e.right, declared)
    [] e.t = "UnaryOp" -> ReadsUnbound(e.expr, declared)
    [] OTHER -> FALSE

\* every call in the expression is print with one argument
RECURSIVE CallsWellFormed(_)
CallsWellFormed(e) ==
  CASE e.t = "FunctionCall" ->
         /\ e.name = W_print
         /\ Len(e.args) = 1
         /\ CallsWellFormed(e.args[1])
    [] e.t = "BinaryOp" -> CallsWellFormed(e.left) /\ CallsWellFormed(e.right)
    [] e.t = "UnaryOp" -> CallsWellFormed(e.expr)
    [] OTHER -> TRUE

StmtExpr(s) == IF s.t = "LetDecl" THEN s.value ELSE s.expr

\* the names whose LetDecl stands before statement j
DeclaredBefore(stmts, j) ==
  {stmts[i].name : i \in {h \in 1..(j - 1) : stmts[h].t = "LetDecl"}}

\* statement j reads a name no LetDecl before it declares
UsesUnbound(stmts, j) ==
  ReadsUnbound(StmtExpr(stmts[j]), DeclaredBefore(stmts, j))

\* lowering ended in the panic of the Variable arm
UndefinedPanic ==
  \E i \in DOMAIN stderr :
    stderr[i].line = "panicked" /\ stderr[i].e = "Undefined variable"

(***************************************************************************)
(* C12: lowering a Variable(x) is fatal exactly when no LetDecl for x has  *)
(* been completely lowered earlier in statement order.  Lowering panics    *)
(* with Undefined variable only at a statement that reads a name no        *)
(* earlier LetDecl declares (its own LetDecl does not count: let x = x),   *)
(* and lowering never gets past the first such statement: it ends there    *)
(* in that panic, so a use after a declaration is never fatal and a use    *)
(* before it always is.                                                    *)
(***************************************************************************)
C12_UnboundReadIsFatal ==
  /\ UndefinedPanic => (k \in DOMAIN prog /\ UsesUnbound(prog, k))
  /\ \A j \in DOMAIN prog :
       (/\ UsesUnbound(prog, j)
        /\ \A i \in 1..(j - 1) : ~UsesUnbound(prog, i)
        /\ \A i \in 1..j : CallsWellFormed(StmtExpr(prog[i])))
         => /\ pc \notin {"call", "returned"}
            /\ pc = "lower" => k <= j
            /\ pc = "exit" => (k = j /\ UndefinedPanic)

\* let x = x; x has ended in the panic of its first statement
C12_Witness ==
  /\ prog = <<LetDecl(X, Variable(X)), ExprStmt(Variable(X))>>
  /\ UndefinedPanic
  /\ pc = "exit"
  /\ k = 1

\* the value compile_and_run returns for a program on its own
ValueOfProgram(p) ==
  IF p = <<>> THEN 0 ELSE ValueOfStmt(Last(p), EnvAfter(Front(p), EmptyMap))

\* the names some program declares
DeclaredIn(p) == {p[i].name : i \in {h \in DOMAIN p : p[h].t = "LetDecl"}}

(***************************************************************************)
(* C13: variable bindings do not survive a compile_and_run call.  In any   *)
(* sequence of calls on one JITCompiler each call starts lowering with an  *)
(* empty name-to-slot mapping, and the mapping never holds a name that the *)
(* statements of the call's own program lowered so far do not declare; so  *)
(* a program that reads a variable it does not declare ends in the         *)
(* Undefined variable panic even when an earlier program declared it, and  *)
(* the value a call returns is the value of its own program alone.         *)
(***************************************************************************)
C13_BindingsDoNotSurvive ==
  mode = "session"
    => /\ pc = "lower"
            => /\ k = 1 => builder = NewBuilder
               /\ DOMAIN builder.variables = DeclaredBefore(prog, k)
       /\ result # <<>> => result[1] = ValueOfProgram(prog)
       /\ \A j \in DOMAIN prog :
            UsesUnbound(prog, j)
              => /\ pc \notin {"call", "returned"}
                 /\ pc = "exit" => UndefinedPanic

\* let x = 1 has been run, then the program x on the same JITCompiler,
\* which ended in the panic
C13_Witness ==
  /\ mode = "session"
  /\ earlier = << <<LetDecl(X, Num1)>> >>
  /\ prog = <<ExprStmt(Variable(X))>>
  /\ X \in DeclaredIn(earlier[1])
  /\ pc = "exit"
  /\ UndefinedPanic

=============================================================================
